---- MODULE Spec2Model ----
(***************************************************************************)
(* A model of quad_rag_core: the watcher registry (PathWatcherManager,     *)
(* path_manager.py) and the per-root file watcher (RAGFileWatcher,         *)
(* path_watcher.py) working against a Qdrant store.                        *)
(*                                                                         *)
(* Strings of the program (paths, collection names) are sequences of       *)
(* one-character strings, so that startswith, replace, re.sub and strip    *)
(* are computed character by character as the code does.                   *)
(***************************************************************************)
EXTENDS Integers, Sequences, FiniteSets, TLC

VARIABLES
    \* ---- PathWatcherManager (path_manager.py) ----
    collection_prefix,  \* self.collection_prefix
    watchers,           \* self.watchers: normalized folder path -> watcher object
    lock,               \* self._lock: the thread holding it, or NoThread
    pc,                 \* where each caller thread stands inside watch_folder
    folder_path,        \* watch_folder's local folder_path, per thread
    content_types,      \* watch_folder's argument content_types, per thread
    clean_name,         \* watch_folder's local clean_name, per thread
    result,             \* how each thread's last watch_folder call ended
    observers,          \* running Observer threads (started, never stopped), per folder
    concurrent,         \* history: the pairs of threads whose current or last
                        \* watch_folder calls overlapped in time
    \* ---- the Qdrant store ----
    collections,        \* collection name -> set of points
    \* ---- one RAGFileWatcher (path_watcher.py) and the folder it watches ----
    files,              \* the files of the folder: path -> [exists, mtime, content]
    clock,              \* the filesystem's time, the source of modification times
    events,             \* the events the Observer has queued and not yet dispatched
    handler,            \* the Observer thread inside on_moved / on_deleted
    tasks,              \* the _delayed_process threads
    stop_event,         \* self._stop_event
    hash_seed,          \* the process's string hash seed (hash() is salted per process)
    \* ---- the same RAGFileWatcher: status and progress ----
    progress,           \* self.status, total_files, processed_files, progress_percent,
                        \* is_restored, file_count_mode
    progress_lock,      \* self._progress_lock: who holds it, or NoThread
    starter,            \* the thread constructing and starting the watcher
                        \* (failed: history, a count call of its has raised)
    scanner,            \* the _initial_scan thread
    stopper,            \* the thread calling stop()
    reader,             \* the thread calling get_status()
    \* ---- file_processor.chunk_text ----
    chunker,            \* one call of chunk_text: its arguments and what it returned
    \* ---- PathWatcherManager._sanitize_collection_name ----
    sanitizer,          \* one call of the function: its arguments and its outcome
    \* ---- RAGFileWatcher._process_file, statement by statement ----
    proc,               \* worker -> where its run of _process_file stands
    journal             \* history: the calls that raised, and what ran after stop()

watchVars == <<files, clock, events, handler, tasks, stop_event, hash_seed>>

regVars == <<collection_prefix, watchers, lock, pc, folder_path, content_types,
             clean_name, result, observers, concurrent>>
lifeVars == <<progress, progress_lock, starter, scanner, stopper, reader>>
callVars == <<sanitizer, proc, journal>>
vars == <<regVars, collections, watchVars, lifeVars, chunker, callVars>>

----------------------------------------------------------------------------
(* Strings *)

SEP == "/"                        \* os.sep
EmptyStr == <<>>

StartsWith(s, pre) ==
    /\ Len(pre) <= Len(s)
    /\ SubSeq(s, 1, Len(pre)) = pre

RECURSIVE Split(_, _)
\* str.split(sep) for a one-character separator
Split(s, sep) ==
    IF s = <<>> THEN << <<>> >>
    ELSE LET rest == Split(Tail(s), sep)
         IN  IF Head(s) = sep THEN << <<>> >> \o rest
             ELSE << <<Head(s)>> \o Head(rest) >> \o Tail(rest)

RECURSIVE Join(_, _)
\* sep.join(comps)
Join(comps, sep) ==
    IF comps = <<>> THEN <<>>
    ELSE IF Len(comps) = 1 THEN Head(comps)
    ELSE Head(comps) \o <<sep>> \o Join(Tail(comps), sep)

RECURSIVE MapChars(_, _, _)
\* every character of s that is in `from` replaced by the string `to`
MapChars(s, from, to) ==
    IF s = <<>> THEN <<>>
    ELSE (IF Head(s) \in from THEN to ELSE <<Head(s)>>) \o MapChars(Tail(s), from, to)

RECURSIVE LStrip(_, _)
LStrip(s, chars) ==
    IF s # <<>> /\ Head(s) \in chars THEN LStrip(Tail(s), chars) ELSE s

RECURSIVE RStrip(_, _)
RStrip(s, chars) ==
    IF s # <<>> /\ s[Len(s)] \in chars THEN RStrip(SubSeq(s, 1, Len(s) - 1), chars) ELSE s

\* str.strip(chars)
Strip(s, chars) == RStrip(LStrip(s, chars), chars)

\* s[:n]
Prefix(s, n) == SubSeq(s, 1, IF Len(s) < n THEN Len(s) ELSE n)

Whitespace == {" ", "\t", "\n"}

Lower == {"a","b","c","d","e","f","g","h","i","j","k","l","m",
          "n","o","p","q","r","s","t","u","v","w","x","y","z"}
Upper == {"A","B","C","D","E","F","G","H","I","J","K","L","M",
          "N","O","P","Q","R","S","T","U","V","W","X","Y","Z"}
Digits == {"0","1","2","3","4","5","6","7","8","9"}
\* the class [a-zA-Z0-9_.-] of _sanitize_collection_name
NameChars == Lower \cup Upper \cup Digits \cup {"_", ".", "-"}

----------------------------------------------------------------------------
(* Paths: os.path.normpath(os.path.abspath(path)) on a POSIX system *)

\* the process's working directory, which abspath joins relative paths to
Cwd == <<"/", "a">>

RECURSIVE NormComps(_, _, _)
\* the component loop of posixpath.normpath; acc is new_comps
NormComps(comps, acc, initial_slashes) ==
    IF comps = <<>> THEN acc
    ELSE LET comp == Head(comps)
             rest == Tail(comps)
         IN  IF comp = <<>> \/ comp = <<".">>
             THEN NormComps(rest, acc, initial_slashes)
             ELSE IF \/ comp # <<".", ".">>
                     \/ (initial_slashes = 0 /\ acc = <<>>)
                     \/ (acc # <<>> /\ acc[Len(acc)] = <<".", ".">>)
             THEN NormComps(rest, Append(acc, comp), initial_slashes)
             ELSE IF acc # <<>>
             THEN NormComps(rest, SubSeq(acc, 1, Len(acc) - 1), initial_slashes)
             ELSE NormComps(rest, acc, initial_slashes)

NormPath(path) ==
    LET initial_slashes ==
            IF ~StartsWith(path, <<SEP>>) THEN 0
            ELSE IF StartsWith(path, <<SEP, SEP>>) /\ ~StartsWith(path, <<SEP, SEP, SEP>>)
            THEN 2 ELSE 1
        joined == Join(NormComps(Split(path, SEP), <<>>, initial_slashes), SEP)
        out == (IF initial_slashes = 2 THEN <<SEP, SEP>>
                ELSE IF initial_slashes = 1 THEN <<SEP>> ELSE <<>>) \o joined
    IN  IF out = <<>> THEN <<".">> ELSE out

AbsPath(path) ==
    IF StartsWith(path, <<SEP>>) THEN NormPath(path)
    ELSE NormPath(Cwd \o <<SEP>> \o path)

\* PathWatcherManager._normalize_path
NormalizePath(path) == NormPath(AbsPath(path))

----------------------------------------------------------------------------
(* The Qdrant store: a collection is a set of points [id, payload], at most  *)
(* one per id.                                                              *)

NoThread == "none"
Threads == {"t1", "t2"}

\* the fixed point id of the metadata record (a UUID string); chunk ids are
\* integers, kept apart from it by the kind field
WATCHER_METADATA_ID ==
    [kind |-> "uuid", seed |-> 0, s |-> <<"f","0","f","0","f","0","f","0","-","1">>]

\* client.upsert: insert, or replace the point of the same id
Upsert(points, pt) == {q \in points : q.id # pt.id} \cup {pt}

\* QdrantManager.ensure_collection
EnsureCollection(cols, name) ==
    IF name \in DOMAIN cols THEN cols ELSE (name :> {}) @@ cols

\* QdrantManager.upsert_points on one collection; the client raises on a
\* collection that does not exist
UpsertPoints(cols, name, pt) == [cols EXCEPT ![name] = Upsert(@, pt)]

\* client.retrieve(ids=[WATCHER_METADATA_ID])
RetrieveMeta(cols, name) == {q \in cols[name] : q.id = WATCHER_METADATA_ID}

----------------------------------------------------------------------------
(* PathWatcherManager *)

\* the inputs the model draws watch_folder's and unwatch_folder's path from
RawPaths == {
    EmptyStr,
    <<"/">>,
    <<"/","a","/","b">>,
    <<"/","a","/","b","/">>,
    <<"/","a","/","b","/","c">>,
    <<"/","a","/","b","_","c">>,
    <<"b","c">> }

Roots == {NormalizePath(r) : r \in RawPaths \ {EmptyStr}}

\* the collection_prefix values the registry is constructed with
Prefixes == { <<"r","a","g">>, EmptyStr }

\* the content_types arguments of watch_folder
ContentTypeArgs == { {}, {"text"} }

\* _check_conflict: the watched roots for which the startswith test holds
CheckConflict(new_path, watched_roots) ==
    LET np == NormalizePath(new_path)
    IN  {w \in watched_roots :
            \/ StartsWith(np, w \o <<SEP>>)
            \/ StartsWith(w, np \o <<SEP>>)}

RECURSIVE CollapseUnderscores(_)
\* re.sub(r'_+', '_', s)
CollapseUnderscores(s) ==
    IF s = <<>> THEN <<>>
    ELSE IF Head(s) = "_" /\ Len(s) > 1 /\ s[2] = "_" THEN CollapseUnderscores(Tail(s))
    ELSE <<Head(s)>> \o CollapseUnderscores(Tail(s))

RECURSIVE SubInvalid(_)
\* re.sub(r'[^a-zA-Z0-9_.-]', '_', s)
SubInvalid(s) ==
    IF s = <<>> THEN <<>>
    ELSE <<IF Head(s) \in NameChars THEN Head(s) ELSE "_">> \o SubInvalid(Tail(s))

\* _sanitize_collection_name: [raised, value]
SanitizeCollectionName(base_name, max_length) ==
    IF Strip(base_name, Whitespace) = <<>>
    THEN [raised |-> TRUE, value |-> <<>>]
    ELSE LET sanitized == Strip(CollapseUnderscores(SubInvalid(base_name)), {"_", ".", "-"})
         IN  IF sanitized = <<>>
             THEN [raised |-> TRUE, value |-> <<>>]
             ELSE [raised |-> FALSE, value |-> Prefix(sanitized, max_length)]

\* the default of _sanitize_collection_name's max_length
MaxNameLength == 64

\* watch_folder's base_name
BaseName(prefix, path) ==
    prefix \o <<"_">>
           \o MapChars(MapChars(MapChars(path, {":"}, <<>>), {"\\"}, <<"_">>), {"/"}, <<"_">>)

\* content_types or ["text"]
OrText(ct) == IF ct = {} THEN {"text"} ELSE ct

\* the metadata point watch_folder writes
MetaPoint(path, ct, prefix) ==
    [id |-> WATCHER_METADATA_ID,
     payload |-> [watcher_config |->
                    [folder_path |-> path, content_types |-> OrText(ct),
                     collection_prefix |-> prefix]]]

\* a RAGFileWatcher as the registry keeps it
Watcher(path, name, ct, restored) ==
    [folder_path |-> path, collection_name |-> name, content_types |-> ct,
     is_restored |-> restored]

\* how a watch_folder call ended: returned, or the exception it raised
NoResult == [kind |-> "none", path |-> EmptyStr, conflicts |-> {}]
Returned(path) == [kind |-> "ok", path |-> path, conflicts |-> {}]
Raised(kind, path, conflicts) == [kind |-> kind, path |-> path, conflicts |-> conflicts]

\* the cap on Observer threads started within one process run
MaxObservers == 2

Started == LET RECURSIVE Sum(_)
               Sum(S) == IF S = {} THEN 0
                         ELSE LET x == CHOOSE x \in S : TRUE
                              IN  observers[x] + Sum(S \ {x})
           IN  Sum(Roots)
InFlight == Cardinality({t \in Threads : pc[t] # "idle"})

Unlock(t) == lock' = IF lock = t THEN NoThread ELSE lock

----------------------------------------------------------------------------
(* watch_folder, one step per statement that touches shared state *)

Finish(t, res) ==
    /\ pc' = [pc EXCEPT ![t] = "idle"]
    /\ result' = [result EXCEPT ![t] = res]
    /\ folder_path' = [folder_path EXCEPT ![t] = EmptyStr]
    /\ content_types' = [content_types EXCEPT ![t] = {}]
    /\ clean_name' = [clean_name EXCEPT ![t] = EmptyStr]

\* lines 125-128: the empty-path check and the normalization, before the lock
WatchFolderCall(t, raw, ct) ==
    /\ pc[t] = "idle"
    /\ concurrent' = {pr \in concurrent : t \notin pr}
                        \cup {{t, u} : u \in {u \in Threads \ {t} : pc[u] # "idle"}}
    /\ Started + InFlight < MaxObservers
    /\ IF raw = EmptyStr
       THEN /\ Finish(t, Raised("empty", raw, {}))
            /\ UNCHANGED <<collection_prefix, watchers, lock, observers, collections>>
       ELSE /\ pc' = [pc EXCEPT ![t] = "lock"]
            /\ folder_path' = [folder_path EXCEPT ![t] = NormalizePath(raw)]
            /\ content_types' = [content_types EXCEPT ![t] = ct]
            /\ result' = [result EXCEPT ![t] = NoResult]
            /\ UNCHANGED <<collection_prefix, watchers, lock, observers, collections,
                           clean_name>>

\* line 131: with self._lock
AcquireLock(t) ==
    /\ UNCHANGED concurrent
    /\ pc[t] = "lock"
    /\ lock = NoThread
    /\ lock' = t
    /\ pc' = [pc EXCEPT ![t] = "check"]
    /\ UNCHANGED <<collection_prefix, watchers, folder_path, content_types, clean_name,
                   result, observers, collections>>

\* CheckAndName with the collection ensured before the conflict is raised
CheckAndName_EnsureFirst(t) ==
    /\ pc[t] = "check"
    /\ UNCHANGED concurrent
    /\ LET conflicts == CheckConflict(folder_path[t], DOMAIN watchers)
           name == SanitizeCollectionName(BaseName(collection_prefix, folder_path[t]),
                                          MaxNameLength)
       IN  /\ collections' = IF name.raised THEN collections
                              ELSE EnsureCollection(collections, name.value)
           /\ IF conflicts # {}
              THEN Finish(t, Raised("conflict", folder_path[t], conflicts)) /\ Unlock(t)
              ELSE IF name.raised
              THEN Finish(t, Raised("sanitize", folder_path[t], {})) /\ Unlock(t)
              ELSE /\ clean_name' = [clean_name EXCEPT ![t] = name.value]
                   /\ pc' = [pc EXCEPT ![t] = "ensure"]
                   /\ UNCHANGED <<lock, folder_path, content_types, result>>
    /\ UNCHANGED <<collection_prefix, watchers, observers>>

\* lines 132-142: the conflict check and the collection name
CheckAndName(t) ==
    /\ UNCHANGED concurrent
    /\ pc[t] = "check"
    /\ LET conflicts == CheckConflict(folder_path[t], DOMAIN watchers)
           name == SanitizeCollectionName(BaseName(collection_prefix, folder_path[t]),
                                          MaxNameLength)
       IN  IF conflicts # {}
           THEN Finish(t, Raised("conflict", folder_path[t], conflicts)) /\ Unlock(t)
           ELSE IF name.raised
           THEN Finish(t, Raised("sanitize", folder_path[t], {})) /\ Unlock(t)
           ELSE /\ clean_name' = [clean_name EXCEPT ![t] = name.value]
                /\ pc' = [pc EXCEPT ![t] = "ensure"]
                /\ UNCHANGED <<lock, folder_path, content_types, result>>
    /\ UNCHANGED <<collection_prefix, watchers, observers, collections>>

\* line 144: ensure_collection; a store call may raise
EnsureStep(t, ok) ==
    /\ UNCHANGED concurrent
    /\ pc[t] = "ensure"
    /\ IF ok
       THEN /\ collections' = EnsureCollection(collections, clean_name[t])
            /\ pc' = [pc EXCEPT ![t] = "upsert"]
            /\ UNCHANGED <<lock, folder_path, content_types, clean_name, result>>
       ELSE /\ Finish(t, Raised("store", folder_path[t], {})) /\ Unlock(t)
            /\ UNCHANGED collections
    /\ UNCHANGED <<collection_prefix, watchers, observers>>

\* lines 146-157: the metadata point
UpsertMetaStep(t, ok) ==
    /\ UNCHANGED concurrent
    /\ pc[t] = "upsert"
    /\ IF ok
       THEN /\ collections' = UpsertPoints(collections, clean_name[t],
                                  MetaPoint(folder_path[t], content_types[t],
                                            collection_prefix))
            /\ pc' = [pc EXCEPT ![t] = "start"]
            /\ UNCHANGED <<lock, folder_path, content_types, clean_name, result>>
       ELSE /\ Finish(t, Raised("store", folder_path[t], {})) /\ Unlock(t)
            /\ UNCHANGED collections
    /\ UNCHANGED <<collection_prefix, watchers, observers>>

\* lines 159-166: the watcher is built and started; observer.start() may raise
StartStep(t, ok) ==
    /\ UNCHANGED concurrent
    /\ pc[t] = "start"
    /\ IF ok
       THEN /\ observers' = [observers EXCEPT ![folder_path[t]] = @ + 1]
            /\ pc' = [pc EXCEPT ![t] = "register"]
            /\ UNCHANGED <<lock, folder_path, content_types, clean_name, result>>
       ELSE /\ Finish(t, Raised("start", folder_path[t], {})) /\ Unlock(t)
            /\ UNCHANGED observers
    /\ UNCHANGED <<collection_prefix, watchers, collections>>

\* line 167: self.watchers[folder_path] = watcher, and the lock is released
RegisterStep(t) ==
    /\ UNCHANGED concurrent
    /\ pc[t] = "register"
    /\ watchers' = (folder_path[t] :>
                      Watcher(folder_path[t], clean_name[t], OrText(content_types[t]), FALSE))
                   @@ watchers
    /\ Finish(t, Returned(folder_path[t]))
    /\ Unlock(t)
    /\ UNCHANGED <<collection_prefix, observers, collections>>

\* unwatch_folder: the path is looked up as given; neither the watcher's
\* observer nor its collection is touched
UnwatchFolder(path) ==
    /\ UNCHANGED concurrent
    /\ path \in DOMAIN watchers
    /\ watchers' = [p \in DOMAIN watchers \ {path} |-> watchers[p]]
    /\ UNCHANGED <<collection_prefix, lock, pc, folder_path, content_types, clean_name,
                   result, observers, collections>>

----------------------------------------------------------------------------
(* _restore_from_qdrant, run by __init__ of a new process *)

MetaConfig(cols, name) ==
    (CHOOSE q \in RetrieveMeta(cols, name) : TRUE).payload.watcher_config

WithMeta(cols) == {name \in DOMAIN cols : RetrieveMeta(cols, name) # {}}
MetaFolders(cols) == {MetaConfig(cols, name).folder_path : name \in WithMeta(cols)}

\* the collections the loop builds a watcher for: name matches ^prefix_, the
\* metadata point is there, the folder exists
Restorable(cols, prefix, exists) ==
    {name \in DOMAIN cols :
        /\ StartsWith(name, prefix \o <<"_">>)
        /\ RetrieveMeta(cols, name) # {}
        /\ MetaConfig(cols, name).folder_path \in exists}

\* The process ends (every thread and observer with it) and a new one is
\* constructed over the same store.  Restarts are taken between calls: a
\* process that dies inside watch_folder leaves the store as the call that
\* raises at the same statement leaves it.  missing: the folders os.path.exists does
\* not find; failing: the collections whose watcher.start() raises.
Restart(missing, failing) ==
    LET exists == Roots \ missing
        restorable == Restorable(collections, collection_prefix, exists)
        folderOf(n) == MetaConfig(collections, n).folder_path
        folders == {folderOf(n) : n \in restorable}
        \* a collection's name is derived from its folder, so no two collections
        \* record the same folder and the loop's order does not matter
        pick(p) == CHOOSE n \in restorable : folderOf(n) = p
    IN  /\ \A t \in Threads : pc[t] = "idle"
        /\ watchers' = [p \in folders |->
                          Watcher(p, pick(p),
                                  MetaConfig(collections, pick(p)).content_types, TRUE)]
        /\ observers' = [p \in Roots |->
                           Cardinality({n \in restorable \ failing : folderOf(n) = p})]
        /\ lock' = NoThread
        /\ concurrent' = {}
        /\ pc' = [t \in Threads |-> "idle"]
        /\ folder_path' = [t \in Threads |-> EmptyStr]
        /\ content_types' = [t \in Threads |-> {}]
        /\ clean_name' = [t \in Threads |-> EmptyStr]
        /\ result' = [t \in Threads |-> NoResult]
        /\ UNCHANGED <<collection_prefix, collections>>

----------------------------------------------------------------------------
(* RAGFileWatcher: the files, their content and the chunk points *)

\* the watched folder and the files the model puts in it
WatchedFolder == <<"/","d">>
FileA == <<"/","d","/","a",".","p","y">>
FileB == <<"/","d","/","b",".","p","y">>
FilePaths == {FileA, FileB}

\* the watcher's collection and accepted categories
WatchedCollection == <<"r","a","g","_","d">>     \* as watch_folder names it
WatchedTypes == {"text"}

\* chunk_text's arguments in _process_file: chunk_size=100, overlap=0.15
ChunkSize == 100
OverlapPercent == 15

\* os.path.splitext(path)[1].lower(), for the lower-case names of the model
RECURSIVE Ext(_)
Ext(path) ==
    IF path = <<>> \/ path[Len(path)] = SEP THEN <<>>
    ELSE IF path[Len(path)] = "." THEN <<".">>
    ELSE LET e == Ext(SubSeq(path, 1, Len(path) - 1))
         IN  IF e = <<>> THEN <<>> ELSE Append(e, path[Len(path)])

\* TEXT_FILE_EXTENSIONS (config.py), the entries the model's names can have
TextFileExtensions == { <<".","p","y">>, <<".","c">>, <<".","t","x","t">>, <<".","m","d">> }

\* mimetypes.guess_type on the model's names
MimeType(path) ==
    CASE Ext(path) = <<".","p","y">> -> "text/x-python"
      [] Ext(path) \in {<<".","c">>, <<".","t","x","t">>} -> "text/plain"
      [] Ext(path) = <<".","m","d">> -> "text/markdown"
      [] Ext(path) = <<".","p","d","f">> -> "application/pdf"
      [] OTHER -> "none"

\* utils.is_text_file
IsTextFile(path) ==
    \/ MimeType(path) \in {"text/x-python", "text/plain", "text/markdown"}
    \/ Ext(path) \in TextFileExtensions

\* RAGFileWatcher._should_process
ShouldProcess(path, types) ==
    \/ "text" \in types /\ IsTextFile(path)
    \/ "pdf" \in types /\ MimeType(path) = "application/pdf"

\* A file's normalized text, as far as _process_file looks at it: the number
\* of its words and their length (all words of one text are equally long).
Tiny  == [words |-> 2,   wordlen |-> 3]    \* 7 characters: below the 10 of line 137
Short == [words |-> 86,  wordlen |-> 1]    \* 2 chunks, the second a single letter
Long  == [words |-> 255, wordlen |-> 4]    \* 3 chunks
Contents == {Tiny, Short, Long}
NoContent == [words |-> 0, wordlen |-> 0]

NoFile == [exists |-> FALSE, mtime |-> 0, content |-> NoContent]

\* len() of k words joined by single spaces
TextLen(k, wordlen) == IF k = 0 THEN 0 ELSE k * wordlen + (k - 1)

\* The overlaps a call passes, in hundredths: 0.0, 0.15 (the configured ratio), 0.5, 0.8
OverlapPercents == {0, 15, 50, 80}

\* 1 - overlap is computed in binary floating point: 1 - 0.8 is
\* 0.19999999999999996, below one fifth, while 1 - 0.0, 1 - 0.15 and 1 - 0.5
\* are 1.0, 0.85 and 0.5.
RoundsBelow == {80}

\* int(chunk_size * (1 - overlap)): the product truncated toward zero.  Where
\* the difference rounds below and the decimal product is a whole number, the
\* floating-point product lies just under it and truncates to one less.
IntProduct(chunk_size, overlap_percent) ==
    LET exact == chunk_size * (100 - overlap_percent)
    IN  IF overlap_percent \in RoundsBelow /\ exact % 100 = 0
        THEN (exact \div 100) - 1
        ELSE exact \div 100

\* chunk_text: step = max(1, int(chunk_size * (1 - overlap)))
ChunkStep(chunk_size, overlap_percent) ==
    LET st == IntProduct(chunk_size, overlap_percent)
    IN  IF st < 1 THEN 1 ELSE st

\* chunk_text: the number of windows, one per start index 0, step, 2*step, ... < words
NumChunks(words, chunk_size, overlap_percent) ==
    LET st == ChunkStep(chunk_size, overlap_percent)
    IN  (words + st - 1) \div st

\* chunk_text: the number of words of window i, words[i*step : i*step + chunk_size]
ChunkWords(words, chunk_size, overlap_percent, i) ==
    LET left == words - i * ChunkStep(chunk_size, overlap_percent)
    IN  IF left < chunk_size THEN left ELSE chunk_size

\* str.split(): the maximal runs of non-whitespace characters, in order
SplitWords(text) ==
    LET nonEmpty(w) == w # <<>>
    IN  SelectSeq(Split(MapChars(text, Whitespace, <<" ">>), " "), nonEmpty)

RECURSIVE ChunkLoop(_, _, _, _)
\* chunk_text, the while loop from index i (only_indices is None): the window
\* words[i : i + chunk_size] joined by single spaces, then i += step
ChunkLoop(words, chunk_size, step, i) ==
    IF i >= Len(words) THEN <<>>
    ELSE LET last == IF i + chunk_size < Len(words) THEN i + chunk_size ELSE Len(words)
         IN  <<Join(SubSeq(words, i + 1, last), " ")>>
                 \o ChunkLoop(words, chunk_size, step, i + step)

\* chunk_text(text, chunk_size, overlap)
ChunkText(text, chunk_size, overlap_percent) ==
    LET words == SplitWords(text)
    IN  IF words = <<>> THEN <<>>
        ELSE ChunkLoop(words, chunk_size, ChunkStep(chunk_size, overlap_percent), 0)

\* The arguments of the calls of chunk_text: texts of up to MaxTextLen
\* characters over two letters and a space, and small chunk sizes
MaxTextLen == 6
TextChars == {"a", "b", " "}
Texts == UNION {[1..n -> TextChars] : n \in 0..MaxTextLen}
ChunkSizes == {1, 2, 3, 10}

NoCall == [pc |-> "none", text |-> <<>>, chunk_size |-> 0, overlap_percent |-> 0,
           chunks |-> <<>>]

\* no call of _sanitize_collection_name is being followed
NoSanitize == [pc |-> "none", base_name |-> <<>>, max_length |-> 0,
               raised |-> FALSE, value |-> <<>>]

\* the threads that run _process_file: the initial scan and a debounced task
Workers == {"scan", "task"}

\* a worker outside _process_file
IdleProc == [pc |-> "idle", path |-> EmptyStr, ids |-> {}, content |-> NoContent, i |-> 0]
NoProc == [w \in Workers |-> IdleProc]

\* history of the runs of _process_file: the calls that raised, as
\* <<path, call, chunk index>>; the paths the scan has called _process_file on;
\* per worker, the upserts made after stop() set the event; the on_modified
\* events delivered
NoJournal == [raised |-> {}, scanned |-> {}, late_upserts |-> [w \in Workers |-> 0],
              modified |-> 0]

\* The arguments of the calls of _sanitize_collection_name: the strings of up
\* to MaxBaseLen characters over a letter, the three separators, a character
\* outside the class and a blank, and one name longer than max_length whose
\* 64th character is an underscore
MaxBaseLen == 4
BaseChars == {"a", "_", ".", "-", "/", " "}
LongName == [i \in 1..(MaxNameLength + 1) |->
                IF i = MaxNameLength THEN "_" ELSE "a"]
BaseNames == UNION {[1..n -> BaseChars] : n \in 0..MaxBaseLen} \cup {LongName}

\* _sanitize_collection_name runs on the arguments of the call
SanitizeCall ==
    /\ sanitizer.pc = "called"
    /\ LET out == SanitizeCollectionName(sanitizer.base_name, sanitizer.max_length)
       IN  sanitizer' = [sanitizer EXCEPT !.pc = "returned", !.raised = out.raised,
                                          !.value = out.value]
    /\ UNCHANGED <<regVars, collections, watchVars, lifeVars, chunker, proc, journal>>

\* chunk_text runs on the arguments of the call and returns its list
ChunkTextCall ==
    /\ chunker.pc = "called"
    /\ chunker' = [chunker EXCEPT
                      !.pc = "returned",
                      !.chunks = ChunkText(chunker.text, chunker.chunk_size,
                                           chunker.overlap_percent)]
    /\ UNCHANGED <<regVars, collections, watchVars, lifeVars, callVars>>

\* line 144: the chunk is embedded and stored unless len(chunk.strip()) < 10
Stored(content, i) ==
    TextLen(ChunkWords(content.words, ChunkSize, OverlapPercent, i), content.wordlen) >= 10

RECURSIVE ToStr(_)
\* str(n) of a natural number
ToStr(n) ==
    LET d == <<"0","1","2","3","4","5","6","7","8","9">>
    IN  IF n < 10 THEN <<d[n + 1]>> ELSE ToStr(n \div 10) \o <<d[(n % 10) + 1]>>

\* str(os.path.getmtime(path)): a float; the model's times are whole seconds
FloatStr(mtime) == ToStr(mtime) \o <<".", "0">>

\* line 148: abs(hash(file_path + str(i) + str(mtime))).  The hash of a string
\* is kept as the string together with the process's hash seed: equal strings
\* hash alike within a process, and the model lets no two strings collide.
PointId(seed, path, i, mtime) ==
    [kind |-> "hash", seed |-> seed, s |-> path \o ToStr(i) \o FloatStr(mtime)]

\* lines 149-159: the point of chunk i of `content`; vector and
\* content_preview are kept as the chunk's text, [content, i]
ChunkPoint(seed, path, i, content, mtime) ==
    [id |-> PointId(seed, path, i, mtime),
     payload |-> [path |-> path, chunk_index |-> i,
                  total_chunks |-> NumChunks(content.words, ChunkSize, OverlapPercent),
                  content_preview |-> [content |-> content, index |-> i],
                  mtime |-> mtime]]

\* file_processor.process_file: the normalized text, None (here NoContent)
\* for a name without MIME type or outside content_types; open() raises for
\* a missing file, which the caller tests first.  PDF files are not modelled.
ProcessFile(path, types, file) ==
    IF MimeType(path) = "none" THEN NoContent
    ELSE IF "text" \in types /\ IsTextFile(path) THEN file.content
    ELSE NoContent

\* the points _process_file upserts for a file, run to its end
FilePoints(seed, path, file) ==
    LET content == ProcessFile(path, WatchedTypes, file)
    IN  IF ~file.exists \/ TextLen(content.words, content.wordlen) < 10 THEN {}
        ELSE {ChunkPoint(seed, path, i, content, file.mtime) :
                 i \in {j \in 0..(NumChunks(content.words, ChunkSize, OverlapPercent) - 1) :
                           Stored(content, j)}}

\* a scroll without the filter: every point of the collection matches
PointsUnder_NoFilter(points, path) == points

\* the scroll filter: FieldCondition(key="path", match=MatchValue(value=file_path))
PointsUnder(points, path) ==
    {q \in points : "path" \in DOMAIN q.payload /\ q.payload.path = path}

\* scroll(limit=1000): the limit of the code scaled to the files of the model,
\* whose texts have at most 3 chunks
ScrollLimit == 2

\* the results client.scroll may return: up to ScrollLimit of the matching points
ScrollResults(points, path) ==
    LET match == PointsUnder(points, path)
        n == IF Cardinality(match) < ScrollLimit THEN Cardinality(match) ELSE ScrollLimit
    IN  {S \in SUBSET match : Cardinality(S) = n}

\* client.delete(points_selector=PointIdsList(points=ids))
DeleteIds(points, ids) == {q \in points : q.id \notin ids}

Ids(points) == {q.id : q \in points}

----------------------------------------------------------------------------
(* RAGFileWatcher: filesystem events, the Observer thread, the delayed tasks *)

MaxClock == 3      \* the filesystem operations, each at its own time
MaxQueue == 2      \* the events queued and not yet dispatched
MaxTasks == 2      \* the _delayed_process threads alive at once

TaskIds == 1..MaxTasks

\* before: the points stored under the task's path when _process_file began;
\* clean: since then nothing else touched that path (history, for the properties)
FreeTask == [pc |-> "free", path |-> EmptyStr, ids |-> {}, content |-> NoContent,
             i |-> 0, before |-> {}, clean |-> FALSE]
\* the Observer thread's position: the callback it is in (type, path) and where
IdleHandler == [pc |-> "idle", type |-> "none", path |-> EmptyStr, ids |-> {}]

Event(type, src, dest) == [type |-> type, src_path |-> src, dest_path |-> dest]

\* the points of the watcher's collection
Points == collections[WatchedCollection]

\* the tasks working on one of `paths` are no longer alone on it
Dirty(ts, paths) ==
    [k \in TaskIds |-> IF ts[k].path \in paths THEN [ts[k] EXCEPT !.clean = FALSE]
                       ELSE ts[k]]

FreeSlots(ts) == {k \in TaskIds : ts[k].pc = "free"}

\* threading.Thread(target=self._delayed_process, args=(file_path,)).start()
Spawn(ts, path) ==
    LET k == CHOOSE k \in FreeSlots(ts) : \A j \in FreeSlots(ts) : k <= j
    IN  [Dirty(ts, {path}) EXCEPT ![k] = [FreeTask EXCEPT !.pc = "sleep", !.path = path]]

\* the path on_moved hands to _handle_file_event (line 179)
MovedHandled(ev) == ev.src_path

\* _handle_file_event: the tasks after the event for `path`
HandleFileEvent(ts, path) ==
    IF ShouldProcess(path, WatchedTypes) THEN Spawn(ts, path) ELSE ts

\* the filesystem: a file is created or rewritten
WriteFile(path, content) ==
    /\ clock < MaxClock
    /\ Len(events) < MaxQueue
    /\ clock' = clock + 1
    /\ files' = [files EXCEPT ![path] =
                    [exists |-> TRUE, mtime |-> clock + 1, content |-> content]]
    /\ events' = Append(events, Event(IF files[path].exists THEN "modified" ELSE "created",
                                      path, EmptyStr))
    /\ tasks' = Dirty(tasks, {path})
    /\ UNCHANGED <<regVars, lifeVars, chunker, callVars, collections, handler, stop_event, hash_seed>>

\* the filesystem watch facility delivers a modified event again, the file
\* being what it was
DuplicateEvent(path) ==
    /\ files[path].exists
    /\ clock < MaxClock
    /\ Len(events) < MaxQueue
    /\ clock' = clock + 1
    /\ events' = Append(events, Event("modified", path, EmptyStr))
    /\ UNCHANGED <<regVars, lifeVars, chunker, callVars, collections, files, handler, tasks, stop_event, hash_seed>>

\* the filesystem: rename src to dest (content and mtime go with the file)
MoveFile(src, dest) ==
    /\ src # dest
    /\ files[src].exists
    /\ clock < MaxClock
    /\ Len(events) < MaxQueue
    /\ clock' = clock + 1
    /\ files' = [files EXCEPT ![dest] = files[src], ![src] = NoFile]
    /\ events' = Append(events, Event("moved", src, dest))
    /\ tasks' = Dirty(tasks, {src, dest})
    /\ UNCHANGED <<regVars, lifeVars, chunker, callVars, collections, handler, stop_event, hash_seed>>

\* the filesystem: unlink
RemoveFile(path) ==
    /\ files[path].exists
    /\ clock < MaxClock
    /\ Len(events) < MaxQueue
    /\ clock' = clock + 1
    /\ files' = [files EXCEPT ![path] = NoFile]
    /\ events' = Append(events, Event("deleted", path, EmptyStr))
    /\ tasks' = Dirty(tasks, {path})
    /\ UNCHANGED <<regVars, lifeVars, chunker, callVars, collections, handler, stop_event, hash_seed>>

\* The Observer thread takes the next event: on_created, on_modified, on_moved
\* or on_deleted up to the first store call of _delete_file_from_qdrant.
Dispatch ==
    /\ events # <<>>
    /\ handler.pc = "idle"
    /\ LET ev == Head(events)
       IN  CASE ev.type \in {"created", "modified"} ->
                  /\ ShouldProcess(ev.src_path, WatchedTypes) => FreeSlots(tasks) # {}
                  /\ tasks' = HandleFileEvent(tasks, ev.src_path)
                  /\ UNCHANGED handler
             [] ev.type = "moved" ->
                  /\ ShouldProcess(MovedHandled(ev), WatchedTypes) => FreeSlots(tasks) # {}
                  /\ tasks' = Dirty(HandleFileEvent(tasks, MovedHandled(ev)), {ev.src_path})
                  /\ handler' = [pc |-> "scroll", type |-> "moved", path |-> ev.src_path,
                                 ids |-> {}]
             [] ev.type = "deleted" ->
                  /\ tasks' = Dirty(tasks, {ev.src_path})
                  /\ handler' = [pc |-> "scroll", type |-> "deleted", path |-> ev.src_path,
                                 ids |-> {}]
    /\ events' = Tail(events)
    /\ UNCHANGED <<regVars, lifeVars, chunker, callVars, collections, files, clock, stop_event, hash_seed>>

\* _delete_file_from_qdrant in the Observer thread: client.scroll (lines 206-214)
HandlerScroll ==
    /\ handler.pc = "scroll"
    /\ \E S \in ScrollResults(Points, handler.path) :
          handler' = [handler EXCEPT !.pc = "delete", !.ids = Ids(S)]
    /\ UNCHANGED <<regVars, lifeVars, chunker, callVars, collections, files, clock, events, tasks, stop_event,
                   hash_seed>>

\* _delete_file_from_qdrant in the Observer thread: client.delete (lines 215-219)
HandlerDelete ==
    /\ handler.pc = "delete"
    /\ collections' = [collections EXCEPT ![WatchedCollection] = DeleteIds(@, handler.ids)]
    /\ handler' = IdleHandler
    /\ UNCHANGED <<regVars, lifeVars, chunker, callVars, files, clock, events, tasks, stop_event, hash_seed>>

\* _delayed_process wakes; _process_file up to the scroll of
\* _delete_file_from_qdrant (lines 198, 127-134, 206-214)
TaskBegin(k) ==
    /\ tasks[k].pc = "sleep"
    /\ IF stop_event \/ ~ShouldProcess(tasks[k].path, WatchedTypes)
       THEN tasks' = [tasks EXCEPT ![k] = FreeTask]
       ELSE \E S \in ScrollResults(Points, tasks[k].path) :
               tasks' = [tasks EXCEPT ![k] =
                   [@ EXCEPT !.pc = "delete", !.ids = Ids(S),
                             !.before = PointsUnder(Points, tasks[k].path),
                             !.clean = /\ handler.path # tasks[k].path
                                       /\ \A j \in TaskIds \ {k} :
                                             tasks[j].path # tasks[k].path]]
    /\ UNCHANGED <<regVars, lifeVars, chunker, callVars, collections, files, clock, events, handler, stop_event,
                   hash_seed>>

\* _delete_file_from_qdrant in the task: client.delete (lines 215-219)
TaskDelete(k) ==
    /\ tasks[k].pc = "delete"
    /\ collections' = [collections EXCEPT ![WatchedCollection] = DeleteIds(@, tasks[k].ids)]
    /\ tasks' = [tasks EXCEPT ![k] = [@ EXCEPT !.pc = "read", !.ids = {}]]
    /\ UNCHANGED <<regVars, lifeVars, chunker, callVars, files, clock, events, handler, stop_event, hash_seed>>

\* lines 136-140: process_file reads the file (open raises when it is gone),
\* the text is checked and chunked
TaskRead(k) ==
    /\ tasks[k].pc = "read"
    /\ LET f == files[tasks[k].path]
           content == ProcessFile(tasks[k].path, WatchedTypes, f)
       IN  IF ~f.exists \/ TextLen(content.words, content.wordlen) < 10
           THEN tasks' = [tasks EXCEPT ![k] = FreeTask]
           ELSE tasks' = [tasks EXCEPT ![k] =
                             [@ EXCEPT !.pc = "loop", !.content = content, !.i = 0]]
    /\ UNCHANGED <<regVars, lifeVars, chunker, callVars, collections, files, clock, events, handler, stop_event,
                   hash_seed>>

\* lines 141-160: one pass of the loop over the chunks; the function returns
\* after the last one, and when os.path.getmtime raises.  The two getmtime
\* calls of one pass (lines 148 and 157) are taken at the same instant.
TaskChunk(k) ==
    /\ tasks[k].pc = "loop"
    /\ LET t == tasks[k]
           f == files[t.path]
           n == NumChunks(t.content.words, ChunkSize, OverlapPercent)
           next == IF t.i + 1 >= n THEN FreeTask ELSE [t EXCEPT !.i = t.i + 1]
       IN  IF stop_event
           THEN tasks' = [tasks EXCEPT ![k] = FreeTask] /\ UNCHANGED collections
           ELSE IF ~Stored(t.content, t.i)
           THEN tasks' = [tasks EXCEPT ![k] = next] /\ UNCHANGED collections
           ELSE IF ~f.exists
           THEN tasks' = [tasks EXCEPT ![k] = FreeTask] /\ UNCHANGED collections
           ELSE /\ collections' = UpsertPoints(collections, WatchedCollection,
                                     ChunkPoint(hash_seed, t.path, t.i, t.content, f.mtime))
                /\ tasks' = [tasks EXCEPT ![k] = next]
    /\ UNCHANGED <<regVars, lifeVars, chunker, callVars, files, clock, events, handler, stop_event, hash_seed>>

----------------------------------------------------------------------------
(* RAGFileWatcher: construction, start, the initial scan, stop, get_status *)

\* __init__ (lines 25-41)
NewProgress ==
    [status |-> "idle", total_files |-> 0, processed_files |-> 0,
     progress_percent |-> 0, is_restored |-> FALSE, file_count_mode |-> "files"]

NoSnapshot == [status |-> "none", total_files |-> 0, processed_files |-> 0,
               progress_percent |-> 0, count_type |-> "none"]

IdleScanner == [pc |-> "none", file_list |-> <<>>, idx |-> 0]

Max(a, b) == IF a < b THEN b ELSE a

\* _count_points(col.name) - 1 and _count_existing_points(): the points of the
\* collection but one, never below 0; a count that raises is read as 0
ChunkCount(points, ok) == IF ok THEN Max(0, Cardinality(points) - 1) ELSE Max(0, 0 - 1)
\* _count_existing_points with the metadata point counted as a chunk
CountExistingPoints_WithMeta(points, ok) == IF ok THEN Max(0, Cardinality(points)) ELSE 0

CountExistingPoints(points, ok) == IF ok THEN Max(0, Cardinality(points) - 1) ELSE 0

\* get_status: int((processed_files / max(total_files, 1)) * 100)
ProgressPercent(processed, total) == (processed * 100) \div Max(total, 1)

\* _restore_from_qdrant, lines 60-78: the watcher is built, its fields are set
\* from the point count and it is put in the map, all before start()
RestoreFields(ok) ==
    /\ starter.pc = "restore"
    /\ LET chunk_count == ChunkCount(Points, ok)
       IN  progress' = [progress EXCEPT !.is_restored = TRUE,
                                        !.file_count_mode = "chunks",
                                        !.total_files = chunk_count,
                                        !.processed_files = chunk_count,
                                        !.progress_percent = 100,
                                        !.status = "watching"]
    /\ watchers' = (WatchedFolder :>
                      Watcher(WatchedFolder, WatchedCollection, WatchedTypes, TRUE))
    /\ starter' = [starter EXCEPT !.pc = "observer", !.failed = @ \/ ~ok]
    /\ UNCHANGED <<chunker, callVars, collection_prefix, lock, pc, folder_path, content_types, clean_name,
                   result, observers, concurrent, collections, watchVars,
                   progress_lock, scanner, stopper, reader>>

\* start(), lines 44-45: observer.schedule, observer.start
StartObserver ==
    /\ starter.pc = "observer"
    /\ observers' = [observers EXCEPT ![WatchedFolder] = @ + 1]
    /\ starter' = [starter EXCEPT !.pc = IF starter.skip_initial_scan THEN "flags"
                                         ELSE "fresh"]
    /\ UNCHANGED <<chunker, callVars, collection_prefix, watchers, lock, pc, folder_path, content_types,
                   clean_name, result, concurrent, collections, watchVars,
                   progress, progress_lock, scanner, stopper, reader>>

\* start(), lines 48-50 (skip_initial_scan)
StartFlags ==
    /\ starter.pc = "flags"
    /\ progress' = [progress EXCEPT !.status = "watching",
                                    !.file_count_mode = "chunks",
                                    !.is_restored = TRUE]
    /\ starter' = [starter EXCEPT !.pc = "count"]
    /\ UNCHANGED <<regVars, collections, watchVars, chunker, callVars, progress_lock, scanner, stopper,
                   reader>>

\* start(), line 51: self.total_files = self._count_existing_points()
StartCount(ok) ==
    /\ starter.pc = "count"
    /\ progress' = [progress EXCEPT !.total_files = CountExistingPoints(Points, ok)]
    /\ starter' = [starter EXCEPT !.pc = "processed", !.failed = @ \/ ~ok]
    /\ UNCHANGED <<regVars, collections, watchVars, chunker, callVars, progress_lock, scanner, stopper,
                   reader>>

\* start(), lines 52-53
StartProcessed ==
    /\ starter.pc = "processed"
    /\ progress' = [progress EXCEPT !.processed_files = progress.total_files,
                                    !.progress_percent = 100]
    /\ starter' = [starter EXCEPT !.pc = "done"]
    /\ UNCHANGED <<regVars, collections, watchVars, chunker, callVars, progress_lock, scanner, stopper,
                   reader>>

\* start(), lines 55-59: the scan thread is started
StartFresh ==
    /\ starter.pc = "fresh"
    /\ progress' = [progress EXCEPT !.status = "scanning",
                                    !.file_count_mode = "files",
                                    !.is_restored = FALSE,
                                    !.processed_files = 0]
    /\ scanner' = [IdleScanner EXCEPT !.pc = "walk"]
    /\ starter' = [starter EXCEPT !.pc = "register"]
    /\ UNCHANGED <<regVars, collections, watchVars, chunker, callVars, progress_lock, stopper, reader>>

\* watch_folder, line 167, after start() has returned
RegisterStarted ==
    /\ starter.pc = "register"
    /\ watchers' = (WatchedFolder :>
                      Watcher(WatchedFolder, WatchedCollection, WatchedTypes, FALSE))
    /\ starter' = [starter EXCEPT !.pc = "done"]
    /\ UNCHANGED <<chunker, callVars, collection_prefix, lock, pc, folder_path, content_types, clean_name,
                   result, observers, concurrent, collections, watchVars,
                   progress, progress_lock, scanner, stopper, reader>>

\* the orders os.walk may list the files in
RECURSIVE Orders(_)
Orders(S) ==
    IF S = {} THEN {<<>>}
    ELSE UNION {{<<x>> \o o : o \in Orders(S \ {x})} : x \in S}

\* _initial_scan, lines 93-98: the files of the folder that _should_process
ScanWalk ==
    /\ scanner.pc = "walk"
    /\ \E file_list \in Orders({f \in FilePaths : /\ files[f].exists
                                                  /\ ShouldProcess(f, WatchedTypes)}) :
          scanner' = [scanner EXCEPT !.pc = "lock_totals", !.file_list = file_list]
    /\ UNCHANGED <<regVars, collections, watchVars, chunker, callVars, progress, progress_lock, starter,
                   stopper, reader>>

\* with self._progress_lock (lines 100, 109, 115): the scan thread takes the lock
ScanAcquire ==
    /\ scanner.pc \in {"lock_totals", "lock_inc", "lock_finish"}
    /\ progress_lock = NoThread
    /\ progress_lock' = "scanner"
    /\ scanner' = [scanner EXCEPT !.pc = CASE scanner.pc = "lock_totals" -> "totals"
                                          [] scanner.pc = "lock_inc" -> "inc"
                                          [] scanner.pc = "lock_finish" -> "finish"]
    /\ UNCHANGED <<regVars, collections, watchVars, chunker, callVars, progress, starter, stopper, reader>>

\* lines 101-102, and the lock is released
ScanTotals ==
    /\ scanner.pc = "totals"
    /\ progress' = [progress EXCEPT !.total_files = Len(scanner.file_list),
                                    !.processed_files = 0]
    /\ progress_lock' = NoThread
    /\ scanner' = [scanner EXCEPT !.pc = "loop", !.idx = 1]
    /\ UNCHANGED <<regVars, collections, watchVars, chunker, callVars, starter, stopper, reader>>

\* _process_file run from its first to its last line with no other thread
\* between: the old points a scroll returns are deleted, the file's are upserted
ProcessedAlone(points, path, S) ==
    DeleteIds(points, Ids(S)) \cup FilePoints(hash_seed, path, files[path])

\* lines 105-108: the loop's test, the stop check and _process_file
ScanLoop ==
    /\ scanner.pc = "loop"
    /\ IF scanner.idx > Len(scanner.file_list) \/ stop_event
       THEN /\ scanner' = [scanner EXCEPT !.pc = "lock_finish"]
            /\ UNCHANGED collections
       ELSE LET path == scanner.file_list[scanner.idx]
            IN  /\ \E S \in ScrollResults(Points, path) :
                      collections' = [collections EXCEPT ![WatchedCollection] =
                                         ProcessedAlone(@, path, S)]
                /\ scanner' = [scanner EXCEPT !.pc = "lock_inc"]
    /\ UNCHANGED <<regVars, watchVars, chunker, callVars, progress, progress_lock, starter, stopper, reader>>

\* the increment counting every file twice
ScanInc_Twice ==
    /\ scanner.pc = "inc"
    /\ progress' = [progress EXCEPT !.processed_files = @ + 2]
    /\ progress_lock' = NoThread
    /\ scanner' = [scanner EXCEPT !.pc = "loop", !.idx = @ + 1]
    /\ UNCHANGED <<regVars, collections, watchVars, chunker, callVars, starter, stopper, reader>>

\* lines 109-110: self.processed_files += 1, and the lock is released
ScanInc ==
    /\ scanner.pc = "inc"
    /\ progress' = [progress EXCEPT !.processed_files = @ + 1]
    /\ progress_lock' = NoThread
    /\ scanner' = [scanner EXCEPT !.pc = "loop", !.idx = @ + 1]
    /\ UNCHANGED <<regVars, collections, watchVars, chunker, callVars, starter, stopper, reader>>

\* lines 115-116: self.status = "watching", and the lock is released
ScanFinish ==
    /\ scanner.pc = "finish"
    /\ progress' = [progress EXCEPT !.status = "watching"]
    /\ progress_lock' = NoThread
    /\ scanner' = [scanner EXCEPT !.pc = "done"]
    /\ UNCHANGED <<regVars, collections, watchVars, chunker, callVars, starter, stopper, reader>>

\* stop(), lines 62-64: the event is set, the observer stopped and joined.
\* The caller has the watcher from the registry's map.
StopObserver ==
    /\ stopper = "idle"
    /\ WatchedFolder \in DOMAIN watchers
    /\ starter.pc = "done"
    /\ stop_event' = TRUE
    /\ observers' = [observers EXCEPT ![WatchedFolder] = 0]
    /\ stopper' = "joined"
    /\ UNCHANGED <<chunker, callVars, collection_prefix, watchers, lock, pc, folder_path, content_types,
                   clean_name, result, concurrent, collections, files, clock, events,
                   handler, tasks, hash_seed, progress, progress_lock, starter, scanner,
                   reader>>

\* stop(), line 65: self.status = "stopped"
StopStatus ==
    /\ stopper = "joined"
    /\ progress' = [progress EXCEPT !.status = "stopped"]
    /\ stopper' = "done"
    /\ UNCHANGED <<regVars, collections, watchVars, chunker, callVars, progress_lock, starter, scanner,
                   reader>>

\* get_status, line 68: with self._progress_lock
GetStatusAcquire ==
    /\ reader.pc = "idle"
    /\ WatchedFolder \in DOMAIN watchers
    /\ starter.pc = "done"
    /\ progress_lock = NoThread
    /\ progress_lock' = "reader"
    /\ reader' = [reader EXCEPT !.pc = "read"]
    /\ UNCHANGED <<regVars, collections, watchVars, chunker, callVars, progress, starter, scanner, stopper>>

\* get_status, lines 69-76, and the lock is released
GetStatus ==
    /\ reader.pc = "read"
    /\ LET percent == ProgressPercent(progress.processed_files, progress.total_files)
       IN  /\ progress' = [progress EXCEPT !.progress_percent = percent]
           /\ reader' = [pc |-> "idle",
                         snapshot |-> [status |-> progress.status,
                                       total_files |-> progress.total_files,
                                       processed_files |-> progress.processed_files,
                                       progress_percent |-> percent,
                                       count_type |-> IF progress.is_restored
                                                      THEN "chunks" ELSE "files"]]
    /\ progress_lock' = NoThread
    /\ UNCHANGED <<regVars, collections, watchVars, chunker, callVars, starter, scanner, stopper>>

\* no watcher object is under construction or running
NoLifeYet ==
    /\ progress = NewProgress
    /\ progress_lock = NoThread
    /\ starter = [pc |-> "none", skip_initial_scan |-> FALSE, failed |-> FALSE]
    /\ scanner = IdleScanner
    /\ stopper = "idle"
    /\ reader = [pc |-> "idle", snapshot |-> NoSnapshot]
    /\ chunker = NoCall
    /\ sanitizer = NoSanitize
    /\ proc = NoProc
    /\ journal = NoJournal

----------------------------------------------------------------------------
(* _process_file statement by statement: the calls that may raise, the stop
   checks, and the threads that run it *)

\* how many calls raise in one behaviour, and how many on_modified events come
MaxRaises == 2
MaxModified == 1

CanRaise == Cardinality(journal.raised) < MaxRaises

\* the call `call` of worker w raised at chunk i (or before the loop, i = 0)
Raise(w, call, i) ==
    journal' = [journal EXCEPT !.raised = @ \cup {<<proc[w].path, call, i>>}]

\* _process_file's return taking the scan out of its loop
Returns_LeavesLoop(w) ==
    /\ proc' = [proc EXCEPT ![w] = IdleProc]
    /\ IF w = "scan"
       THEN scanner' = [scanner EXCEPT !.pc = "lock_finish"]
       ELSE UNCHANGED scanner

\* _process_file returns: the scan goes on to line 109, a task's thread ends
Returns(w) ==
    /\ proc' = [proc EXCEPT ![w] = IdleProc]
    /\ IF w = "scan"
       THEN scanner' = [scanner EXCEPT !.pc = "lock_inc"]
       ELSE UNCHANGED scanner

\* the worker moves on inside _process_file
Goes(w, rec) ==
    /\ proc' = [proc EXCEPT ![w] = rec]
    /\ UNCHANGED scanner

\* _initial_scan, lines 105-108: the loop's test, the stop check, and the call
\* of _process_file on the next file of the list
ScanNext ==
    /\ scanner.pc = "loop"
    /\ IF scanner.idx > Len(scanner.file_list) \/ stop_event
       THEN /\ scanner' = [scanner EXCEPT !.pc = "lock_finish"]
            /\ UNCHANGED <<proc, journal>>
       ELSE /\ scanner' = [scanner EXCEPT !.pc = "file"]
            /\ proc' = [proc EXCEPT !["scan"] =
                            [IdleProc EXCEPT !.pc = "entry",
                                             !.path = scanner.file_list[scanner.idx]]]
            /\ journal' = [journal EXCEPT
                              !.scanned = @ \cup {scanner.file_list[scanner.idx]}]
    /\ UNCHANGED <<regVars, collections, watchVars, chunker, sanitizer, progress,
                   progress_lock, starter, stopper, reader>>

\* on_modified for a file of the folder (lines 170-174, 188-192): the Observer
\* thread, running until stop() joins it, starts a thread on _delayed_process
OnModified(path) ==
    /\ observers[WatchedFolder] >= 1
    /\ files[path].exists
    /\ ShouldProcess(path, WatchedTypes)
    /\ proc["task"].pc = "idle"
    /\ journal.modified < MaxModified
    /\ proc' = [proc EXCEPT !["task"] = [IdleProc EXCEPT !.pc = "entry", !.path = path]]
    /\ journal' = [journal EXCEPT !.modified = @ + 1]
    /\ UNCHANGED <<regVars, collections, watchVars, lifeVars, chunker, sanitizer>>

\* lines 127-131 (for a task after the sleep of line 198): the stop check and
\* _should_process
ProcEntry(w) ==
    /\ proc[w].pc = "entry"
    /\ IF stop_event \/ ~ShouldProcess(proc[w].path, WatchedTypes)
       THEN Returns(w)
       ELSE Goes(w, [proc[w] EXCEPT !.pc = "scroll"])
    /\ UNCHANGED <<regVars, collections, watchVars, chunker, sanitizer, journal, progress,
                   progress_lock, starter, stopper, reader>>

\* _delete_file_from_qdrant, lines 206-214: client.scroll; when it raises the
\* function warns and returns (lines 220-221) and _process_file goes on
ProcScroll(w, ok) ==
    /\ proc[w].pc = "scroll"
    /\ IF ok
       THEN /\ \E S \in ScrollResults(Points, proc[w].path) :
                  Goes(w, [proc[w] EXCEPT !.pc = IF S = {} THEN "read" ELSE "delete",
                                          !.ids = Ids(S)])
            /\ UNCHANGED journal
       ELSE /\ CanRaise
            /\ Goes(w, [proc[w] EXCEPT !.pc = "read"])
            /\ Raise(w, "scroll", 0)
    /\ UNCHANGED <<regVars, collections, watchVars, chunker, sanitizer, progress,
                   progress_lock, starter, stopper, reader>>

\* _delete_file_from_qdrant, lines 215-219: client.delete, with the same except
ProcDelete(w, ok) ==
    /\ proc[w].pc = "delete"
    /\ IF ok
       THEN /\ collections' = [collections EXCEPT ![WatchedCollection] =
                                  DeleteIds(@, proc[w].ids)]
            /\ UNCHANGED journal
       ELSE /\ CanRaise
            /\ Raise(w, "delete", 0)
            /\ UNCHANGED collections
    /\ Goes(w, [proc[w] EXCEPT !.pc = "read", !.ids = {}])
    /\ UNCHANGED <<regVars, watchVars, chunker, sanitizer, progress,
                   progress_lock, starter, stopper, reader>>

\* lines 136-140: process_file extracts the text (it may raise: the except of
\* line 162 ends the function), the text is checked and chunked
ProcRead(w, ok) ==
    /\ proc[w].pc = "read"
    /\ LET f == files[proc[w].path]
           content == ProcessFile(proc[w].path, WatchedTypes, f)
       IN  IF ~ok
           THEN CanRaise /\ Returns(w) /\ Raise(w, "extract", 0)
           ELSE /\ IF TextLen(content.words, content.wordlen) < 10
                   THEN Returns(w)
                   ELSE Goes(w, [proc[w] EXCEPT !.pc = "check", !.content = content,
                                                !.i = 0])
                /\ UNCHANGED journal
    /\ UNCHANGED <<regVars, collections, watchVars, chunker, sanitizer, progress,
                   progress_lock, starter, stopper, reader>>

\* the loop without the stop check of line 142
ProcCheck_NoStopCheck(w) ==
    /\ proc[w].pc = "check"
    /\ LET n == NumChunks(proc[w].content.words, ChunkSize, OverlapPercent)
       IN  IF proc[w].i >= n
           THEN Returns(w)
           ELSE IF ~Stored(proc[w].content, proc[w].i)
           THEN Goes(w, [proc[w] EXCEPT !.i = @ + 1])
           ELSE Goes(w, [proc[w] EXCEPT !.pc = "chunk"])
    /\ UNCHANGED <<regVars, collections, watchVars, chunker, sanitizer, journal, progress,
                   progress_lock, starter, stopper, reader>>

\* lines 141-145: the loop's test, the stop check of the pass and the length
\* check of chunk i
ProcCheck(w) ==
    /\ proc[w].pc = "check"
    /\ LET n == NumChunks(proc[w].content.words, ChunkSize, OverlapPercent)
       IN  IF proc[w].i >= n \/ stop_event
           THEN Returns(w)
           ELSE IF ~Stored(proc[w].content, proc[w].i)
           THEN Goes(w, [proc[w] EXCEPT !.i = @ + 1])
           ELSE Goes(w, [proc[w] EXCEPT !.pc = "chunk"])
    /\ UNCHANGED <<regVars, collections, watchVars, chunker, sanitizer, journal, progress,
                   progress_lock, starter, stopper, reader>>

\* the outcomes of one pass after its checks
Outcomes == {"ok", "embed", "upsert"}

\* lines 147-160: embed_document, the point, upsert_points.  When one of the
\* calls raises, the except of line 162, outside the loop, ends the function.
ProcChunk(w, outcome) ==
    /\ proc[w].pc = "chunk"
    /\ IF outcome = "ok"
       THEN /\ collections' = UpsertPoints(collections, WatchedCollection,
                                  ChunkPoint(hash_seed, proc[w].path, proc[w].i,
                                             proc[w].content, files[proc[w].path].mtime))
            /\ Goes(w, [proc[w] EXCEPT !.pc = "check", !.i = @ + 1])
            /\ journal' = [journal EXCEPT
                              !.late_upserts[w] = IF stop_event THEN @ + 1 ELSE @]
       ELSE /\ CanRaise
            /\ Returns(w)
            /\ Raise(w, outcome, proc[w].i)
            /\ UNCHANGED collections
    /\ UNCHANGED <<regVars, watchVars, chunker, sanitizer, progress,
                   progress_lock, starter, stopper, reader>>

----------------------------------------------------------------------------
(* The registry's specification *)

\* the subsets of S with at most one element
AtMostOne(S) == {{}} \cup {{x} : x \in S}

\* no folder is watched yet
NoWatcherYet ==
    /\ files = [p \in FilePaths |-> NoFile]
    /\ clock = 0
    /\ events = <<>>
    /\ handler = IdleHandler
    /\ tasks = [k \in TaskIds |-> FreeTask]
    /\ stop_event = FALSE
    /\ hash_seed = 0

Init ==
    /\ collection_prefix \in Prefixes
    /\ watchers = <<>>
    /\ lock = NoThread
    /\ pc = [t \in Threads |-> "idle"]
    /\ folder_path = [t \in Threads |-> EmptyStr]
    /\ content_types = [t \in Threads |-> {}]
    /\ clean_name = [t \in Threads |-> EmptyStr]
    /\ result = [t \in Threads |-> NoResult]
    /\ observers = [p \in Roots |-> 0]
    /\ concurrent = {}
    /\ collections = <<>>
    /\ NoWatcherYet
    /\ NoLifeYet

\* the steps of watch_folder taken by thread t; oks: whether the store calls
\* and observer.start() may return (TRUE) and may raise (FALSE)
WatchFolderStep(t, oks) ==
    \/ \E raw \in RawPaths, ct \in ContentTypeArgs : WatchFolderCall(t, raw, ct)
    \/ AcquireLock(t)
    \/ CheckAndName(t)
    \/ \E ok \in oks : EnsureStep(t, ok)
    \/ \E ok \in oks : UpsertMetaStep(t, ok)
    \/ \E ok \in oks : StartStep(t, ok)
    \/ RegisterStep(t)

\* one caller at a time, unwatch_folder, and process restarts
Next ==
    \/ WatchFolderStep("t1", BOOLEAN) /\ UNCHANGED <<watchVars, lifeVars, chunker, callVars>>
    \/ \E path \in RawPaths : UnwatchFolder(path) /\ UNCHANGED <<watchVars, lifeVars, chunker, callVars>>
    \/ \E missing \in AtMostOne(MetaFolders(collections)),
          failing \in AtMostOne(WithMeta(collections)) :
          Restart(missing, failing) /\ UNCHANGED <<watchVars, lifeVars, chunker, callVars>>

Spec == Init /\ [][Next]_vars

\* two threads inside watch_folder at once, and unwatch_folder, in one process
\* whose store is reachable
ConcNext ==
    \/ \E t \in Threads : WatchFolderStep(t, {TRUE}) /\ UNCHANGED <<watchVars, lifeVars, chunker, callVars>>
    \/ \E path \in RawPaths : UnwatchFolder(path) /\ UNCHANGED <<watchVars, lifeVars, chunker, callVars>>

ConcSpec == Init /\ [][ConcNext]_vars

\* watch_folder calls that the store and the observers never fail, and
\* restarts that find every folder in place and start every watcher
RoundTripNext ==
    \/ WatchFolderStep("t1", {TRUE}) /\ UNCHANGED <<watchVars, lifeVars, chunker, callVars>>
    \/ Restart({}, {}) /\ UNCHANGED <<watchVars, lifeVars, chunker, callVars>>

RoundTripSpec == Init /\ [][RoundTripNext]_vars

----------------------------------------------------------------------------
(* The watcher's specification: one restored watcher (no initial scan) on   *)
(* WatchedFolder, the store reachable, no stop requested.                   *)

\* The seed of str hashes is drawn anew by each interpreter process unless
\* PYTHONHASHSEED fixes it: PreviousSeed is that of the process that indexed
\* the folder before the restart, HashSeeds what this process may have drawn.
PreviousSeed == 0
HashSeeds == {PreviousSeed, PreviousSeed + 1}

\* what the previous process left: an empty folder, or FileA indexed
IndexedBefore == {NoFile} \cup {[exists |-> TRUE, mtime |-> 1, content |-> c] : c \in Contents}

\* the fields of a watcher restored over a collection of `count` chunk points
RestoredProgress(count) ==
    [status |-> "watching", total_files |-> count, processed_files |-> count,
     progress_percent |-> 100, is_restored |-> TRUE, file_count_mode |-> "chunks"]

WatcherInit ==
    /\ collection_prefix = <<"r","a","g">>
    /\ watchers = (WatchedFolder :>
                     Watcher(WatchedFolder, WatchedCollection, WatchedTypes, TRUE))
    /\ lock = NoThread
    /\ pc = [t \in Threads |-> "idle"]
    /\ folder_path = [t \in Threads |-> EmptyStr]
    /\ content_types = [t \in Threads |-> {}]
    /\ clean_name = [t \in Threads |-> EmptyStr]
    /\ result = [t \in Threads |-> NoResult]
    /\ observers = (WatchedFolder :> 1) @@ [p \in Roots |-> 0]
    /\ concurrent = {}
    /\ \E f \in IndexedBefore :
          /\ files = [p \in FilePaths |-> IF p = FileA THEN f ELSE NoFile]
          /\ clock = f.mtime
          /\ collections = (WatchedCollection :>
                 ({MetaPoint(WatchedFolder, WatchedTypes, collection_prefix)}
                     \cup FilePoints(PreviousSeed, FileA, f)))
    /\ events = <<>>
    /\ handler = IdleHandler
    /\ tasks = [k \in TaskIds |-> FreeTask]
    /\ stop_event = FALSE
    /\ hash_seed \in HashSeeds
    /\ progress = RestoredProgress(CountExistingPoints(Points, TRUE))
    /\ progress_lock = NoThread
    /\ starter = [pc |-> "done", skip_initial_scan |-> TRUE, failed |-> FALSE]
    /\ scanner = IdleScanner
    /\ stopper = "idle"
    /\ reader = [pc |-> "idle", snapshot |-> NoSnapshot]
    /\ chunker = NoCall
    /\ sanitizer = NoSanitize
    /\ proc = NoProc
    /\ journal = NoJournal

WatcherNext ==
    \/ \E p \in FilePaths, c \in Contents : WriteFile(p, c)
    \/ \E p \in FilePaths : DuplicateEvent(p)
    \/ \E src \in FilePaths, dest \in FilePaths : MoveFile(src, dest)
    \/ \E p \in FilePaths : RemoveFile(p)
    \/ Dispatch
    \/ HandlerScroll
    \/ HandlerDelete
    \/ \E k \in TaskIds : TaskBegin(k)
    \/ \E k \in TaskIds : TaskDelete(k)
    \/ \E k \in TaskIds : TaskRead(k)
    \/ \E k \in TaskIds : TaskChunk(k)

WatcherSpec == WatcherInit /\ [][WatcherNext]_vars

\* the same watcher in a folder whose files are written and removed, never renamed
EditNext ==
    \/ \E p \in FilePaths, c \in Contents : WriteFile(p, c)
    \/ \E p \in FilePaths : DuplicateEvent(p)
    \/ \E p \in FilePaths : RemoveFile(p)
    \/ Dispatch
    \/ HandlerScroll
    \/ HandlerDelete
    \/ \E k \in TaskIds : TaskBegin(k)
    \/ \E k \in TaskIds : TaskDelete(k)
    \/ \E k \in TaskIds : TaskRead(k)
    \/ \E k \in TaskIds : TaskChunk(k)

EditSpec == WatcherInit /\ [][EditNext]_vars

----------------------------------------------------------------------------
(* The watcher's life: one RAGFileWatcher from its construction, by         *)
(* watch_folder or by _restore_from_qdrant, to stop(); the folder's files   *)
(* do not change meanwhile.                                                 *)

\* a text of 300 words
Words300 == [words |-> 300, wordlen |-> 4]

\* what the folder holds when the watcher is constructed
FolderFilesA == {[exists |-> TRUE, mtime |-> 1, content |-> c] : c \in Contents \cup {Words300}}
FolderFilesB == {NoFile, [exists |-> TRUE, mtime |-> 1, content |-> Short]}

LifeInit ==
    /\ collection_prefix = <<"r","a","g">>
    /\ watchers = <<>>
    /\ lock = NoThread
    /\ pc = [t \in Threads |-> "idle"]
    /\ folder_path = [t \in Threads |-> EmptyStr]
    /\ content_types = [t \in Threads |-> {}]
    /\ clean_name = [t \in Threads |-> EmptyStr]
    /\ result = [t \in Threads |-> NoResult]
    /\ observers = (WatchedFolder :> 0) @@ [p \in Roots |-> 0]
    /\ concurrent = {}
    /\ clock = 1
    /\ hash_seed \in HashSeeds
    /\ \E fa \in FolderFilesA, fb \in FolderFilesB, indexed \in BOOLEAN :
          /\ files = (FileA :> fa) @@ (FileB :> fb)
          /\ collections = (WatchedCollection :>
                 ({MetaPoint(WatchedFolder, WatchedTypes, collection_prefix)}
                     \cup (IF indexed
                           THEN FilePoints(PreviousSeed, FileA, fa)
                                   \cup FilePoints(PreviousSeed, FileB, fb)
                           ELSE {})))
    /\ events = <<>>
    /\ handler = IdleHandler
    /\ tasks = [k \in TaskIds |-> FreeTask]
    /\ stop_event = FALSE
    /\ progress = NewProgress
    /\ progress_lock = NoThread
    /\ \E skip \in BOOLEAN :
          starter = [pc |-> IF skip THEN "restore" ELSE "observer",
                     skip_initial_scan |-> skip, failed |-> FALSE]
    /\ scanner = IdleScanner
    /\ stopper = "idle"
    /\ reader = [pc |-> "idle", snapshot |-> NoSnapshot]
    /\ chunker = NoCall
    /\ sanitizer = NoSanitize
    /\ proc = NoProc
    /\ journal = NoJournal

LifeNext ==
    \/ \E ok \in BOOLEAN : RestoreFields(ok)
    \/ StartObserver
    \/ StartFlags
    \/ \E ok \in BOOLEAN : StartCount(ok)
    \/ StartProcessed
    \/ StartFresh
    \/ RegisterStarted
    \/ ScanWalk
    \/ ScanAcquire
    \/ ScanTotals
    \/ ScanLoop
    \/ ScanInc
    \/ ScanFinish
    \/ StopObserver
    \/ StopStatus
    \/ GetStatusAcquire
    \/ GetStatus

LifeSpec == LifeInit /\ [][LifeNext]_vars

\* chunk_text as a function: one call on arguments drawn from the bounded sets
ChunkInit ==
    /\ collection_prefix = <<"r","a","g">>
    /\ watchers = <<>>
    /\ lock = NoThread
    /\ pc = [t \in Threads |-> "idle"]
    /\ folder_path = [t \in Threads |-> EmptyStr]
    /\ content_types = [t \in Threads |-> {}]
    /\ clean_name = [t \in Threads |-> EmptyStr]
    /\ result = [t \in Threads |-> NoResult]
    /\ observers = [p \in Roots |-> 0]
    /\ concurrent = {}
    /\ collections = <<>>
    /\ NoWatcherYet
    /\ progress = NewProgress
    /\ progress_lock = NoThread
    /\ starter = [pc |-> "none", skip_initial_scan |-> FALSE, failed |-> FALSE]
    /\ scanner = IdleScanner
    /\ stopper = "idle"
    /\ reader = [pc |-> "idle", snapshot |-> NoSnapshot]
    /\ \E text \in Texts, chunk_size \in ChunkSizes, overlap_percent \in OverlapPercents :
          chunker = [pc |-> "called", text |-> text, chunk_size |-> chunk_size,
                     overlap_percent |-> overlap_percent, chunks |-> <<>>]
    /\ sanitizer = NoSanitize
    /\ proc = NoProc
    /\ journal = NoJournal

ChunkNext == ChunkTextCall

ChunkSpec == ChunkInit /\ [][ChunkNext]_vars

\* _sanitize_collection_name as a function: one call with the default max_length
SanitizeInit ==
    /\ collection_prefix = <<"r","a","g">>
    /\ watchers = <<>>
    /\ lock = NoThread
    /\ pc = [t \in Threads |-> "idle"]
    /\ folder_path = [t \in Threads |-> EmptyStr]
    /\ content_types = [t \in Threads |-> {}]
    /\ clean_name = [t \in Threads |-> EmptyStr]
    /\ result = [t \in Threads |-> NoResult]
    /\ observers = [p \in Roots |-> 0]
    /\ concurrent = {}
    /\ collections = <<>>
    /\ NoWatcherYet
    /\ progress = NewProgress
    /\ progress_lock = NoThread
    /\ starter = [pc |-> "none", skip_initial_scan |-> FALSE, failed |-> FALSE]
    /\ scanner = IdleScanner
    /\ stopper = "idle"
    /\ reader = [pc |-> "idle", snapshot |-> NoSnapshot]
    /\ chunker = NoCall
    /\ proc = NoProc
    /\ journal = NoJournal
    /\ \E base_name \in BaseNames :
          sanitizer = [NoSanitize EXCEPT !.pc = "called", !.base_name = base_name,
                                         !.max_length = MaxNameLength]

SanitizeNext == SanitizeCall

SanitizeSpec == SanitizeInit /\ [][SanitizeNext]_vars

\* what the folder holds: a text of three chunks, alone or beside a text whose
\* second chunk is too short to be stored
BatchFilesA == {[exists |-> TRUE, mtime |-> 1, content |-> Long]}
BatchFilesB == {NoFile, [exists |-> TRUE, mtime |-> 1, content |-> Short]}

\* One watcher started by watch_folder over a folder that may have been indexed
\* before: its initial scan, a task started by an event, and stop(), with
\* _process_file followed statement by statement
BatchInit ==
    /\ collection_prefix = <<"r","a","g">>
    /\ watchers = <<>>
    /\ lock = NoThread
    /\ pc = [t \in Threads |-> "idle"]
    /\ folder_path = [t \in Threads |-> EmptyStr]
    /\ content_types = [t \in Threads |-> {}]
    /\ clean_name = [t \in Threads |-> EmptyStr]
    /\ result = [t \in Threads |-> NoResult]
    /\ observers = (WatchedFolder :> 0) @@ [p \in Roots |-> 0]
    /\ concurrent = {}
    /\ clock = 1
    /\ hash_seed = PreviousSeed
    /\ \E fa \in BatchFilesA, fb \in BatchFilesB, indexed \in BOOLEAN :
          /\ files = (FileA :> fa) @@ (FileB :> fb)
          /\ collections = (WatchedCollection :>
                 ({MetaPoint(WatchedFolder, WatchedTypes, collection_prefix)}
                     \cup (IF indexed
                           THEN FilePoints(PreviousSeed, FileA, fa)
                                   \cup FilePoints(PreviousSeed, FileB, fb)
                           ELSE {})))
    /\ events = <<>>
    /\ handler = IdleHandler
    /\ tasks = [k \in TaskIds |-> FreeTask]
    /\ stop_event = FALSE
    /\ progress = NewProgress
    /\ progress_lock = NoThread
    /\ starter = [pc |-> "observer", skip_initial_scan |-> FALSE, failed |-> FALSE]
    /\ scanner = IdleScanner
    /\ stopper = "idle"
    /\ reader = [pc |-> "idle", snapshot |-> NoSnapshot]
    /\ chunker = NoCall
    /\ sanitizer = NoSanitize
    /\ proc = NoProc
    /\ journal = NoJournal

\* a step of worker w inside _process_file
ProcStep(w) ==
    \/ ProcEntry(w)
    \/ \E ok \in BOOLEAN : ProcScroll(w, ok)
    \/ \E ok \in BOOLEAN : ProcDelete(w, ok)
    \/ \E ok \in BOOLEAN : ProcRead(w, ok)
    \/ ProcCheck(w)
    \/ \E outcome \in Outcomes : ProcChunk(w, outcome)

BatchNext ==
    \/ StartObserver
    \/ StartFresh
    \/ RegisterStarted
    \/ ScanWalk
    \/ ScanAcquire
    \/ ScanTotals
    \/ ScanNext
    \/ ScanInc
    \/ ScanFinish
    \/ StopObserver
    \/ StopStatus
    \/ \E path \in FilePaths : OnModified(path)
    \/ \E w \in Workers : ProcStep(w)

BatchSpec == BatchInit /\ [][BatchNext]_vars

\* The same watcher without events: the scan thread, stop() and the status
\* readers
FairNext ==
    \/ StartObserver
    \/ StartFresh
    \/ RegisterStarted
    \/ ScanWalk
    \/ ScanAcquire
    \/ ScanTotals
    \/ ScanNext
    \/ ScanInc
    \/ ScanFinish
    \/ StopObserver
    \/ StopStatus
    \/ GetStatusAcquire
    \/ GetStatus
    \/ ProcStep("scan")

\* The scan thread is scheduled again and again, every call it makes returns
\* or raises, a reader inside get_status leaves it, and a thread waiting for
\* the progress lock gets it: the readers hold it for one statement.
BatchFairSpec ==
    /\ BatchInit
    /\ [][FairNext]_vars
    /\ WF_vars(ScanWalk)
    /\ SF_vars(ScanAcquire)
    /\ WF_vars(ScanTotals)
    /\ WF_vars(ScanNext)
    /\ WF_vars(ProcStep("scan"))
    /\ WF_vars(ScanInc)
    /\ WF_vars(ScanFinish)
    /\ WF_vars(GetStatus)

----------------------------------------------------------------------------
(* Properties of the registry *)

\* the directory names of a path
Components(path) == SelectSeq(Split(path, SEP), LAMBDA c : c # <<>>)

\* directory a is a strict ancestor of directory b
IsAncestor(a, b) ==
    /\ Len(Components(a)) < Len(Components(b))
    /\ SubSeq(Components(b), 1, Len(Components(a))) = Components(a)

Overlapping(a, b) == IsAncestor(a, b) \/ IsAncestor(b, a)

\* the roots among `roots` that are an ancestor or a descendant of path
TrueConflicts(path, roots) == {w \in roots : Overlapping(w, path)}

\* thread t has passed watch_folder's conflict check and not yet returned
PastCheck(t) == pc[t] \in {"ensure", "upsert", "start", "register"}
InCritical(t) == pc[t] \in {"check", "ensure", "upsert", "start", "register"}

\* thread t ends the conflict check in this step
EndsCheck(t) == pc[t] = "check" /\ pc'[t] # "check"

ConfigErrors == {"empty", "conflict", "sanitize"}

\* C1: no two roots registered in the watcher map are ancestor and descendant
\* of one another, whatever watch_folder, unwatch_folder and restarts came before.
C1_NoOverlappingRoots ==
    \A p \in DOMAIN watchers : \A q \in DOMAIN watchers : ~IsAncestor(p, q)

\* C2: watch_folder(p) raises the conflict error, listing the conflicting
\* roots, whenever a registered root is a strict ancestor or descendant of the
\* normalized p, and raises no conflict error when none is.
C2_ConflictIffOverlap ==
    [][\A t \in Threads :
         EndsCheck(t) =>
            LET cf == TrueConflicts(folder_path[t], DOMAIN watchers)
            IN  /\ cf # {} => result'[t] = Raised("conflict", folder_path[t], cf)
                /\ cf = {} => result'[t].kind # "conflict"]_vars

\* C3: watch_folder on a path whose normalized form is already a registered
\* root raises the conflict error, and starts and registers no second watcher.
C3_SelfConflict ==
    [][\A t \in Threads :
         (EndsCheck(t) /\ folder_path[t] \in DOMAIN watchers) =>
            /\ result'[t].kind = "conflict"
            /\ UNCHANGED <<watchers, observers>>]_vars

\* C4: the critical sections of two watch_folder calls never interleave, and of
\* two calls that overlap in time on overlapping paths at most one returns
\* normally.
C4_AtMostOneSucceeds ==
    /\ \A t \in Threads : InCritical(t) <=> lock = t
    /\ \A t \in Threads : \A u \in Threads \ {t} :
          ({t, u} \in concurrent /\ result[t].kind = "ok" /\ result[u].kind = "ok")
             => ~Overlapping(result[t].path, result[u].path)

\* C5: a watch_folder call that is rejected for a configuration error (empty
\* path, conflict, collection name sanitized to nothing) is rejected before it
\* has changed the watcher map, the store or the running observers.
C5_NoPartialState ==
    [][\A t \in Threads :
         /\ (result'[t].kind \in ConfigErrors /\ result'[t] # result[t])
               => /\ pc[t] \in {"idle", "check"}
                  /\ UNCHANGED <<watchers, collections, observers>>
         /\ ((pc[t] = "idle" /\ pc'[t] = "lock") \/ (pc[t] = "lock" /\ pc'[t] = "check"))
               => UNCHANGED <<watchers, collections, observers>>]_vars

\* a conflicting call was rejected while a root is registered and its
\* collection stored
C5_Witness ==
    /\ result["t1"].kind = "conflict"
    /\ result["t1"].conflicts \subseteq DOMAIN watchers
    /\ result["t1"].conflicts # {}
    /\ DOMAIN collections # {}

\* a new process has been constructed over the store: every thread is outside
\* watch_folder before and after, and the calls' results are gone
RestartStep ==
    /\ \A t \in Threads : pc[t] = "idle" /\ pc'[t] = "idle"
    /\ \E t \in Threads : result[t] # NoResult
    /\ \A t \in Threads : result'[t] = NoResult

\* C14: when the process that registered the roots of the map by watch_folder
\* is restarted, every folder being in place, the new map has a watcher for
\* exactly these roots, each with the collection and the content types it had.
\* Stated for a registry with a prefix that is not empty.
C14_RoundTrip ==
    [][(/\ RestartStep
        /\ collection_prefix # EmptyStr
        /\ \A p \in DOMAIN watchers : ~watchers[p].is_restored)
          => watchers' = [p \in DOMAIN watchers |->
                            Watcher(p, watchers[p].collection_name,
                                    watchers[p].content_types, TRUE)]]_vars

\* C15: after _restore_from_qdrant every watcher of the map has been started:
\* a collection whose restoration raised has left none behind.
C15_SkippedLeavesNoWatcher ==
    [][RestartStep => \A p \in DOMAIN watchers' : observers'[p] >= 1]_vars

\* C16: two different registered roots that are not ancestor and descendant
\* have different collections.
C16_DistinctCollections ==
    \A p, q \in DOMAIN watchers :
        (p # q /\ ~Overlapping(p, q))
            => watchers[p].collection_name # watchers[q].collection_name

----------------------------------------------------------------------------
(* Properties of the watcher (WatcherSpec) *)

PointsAfter == collections'[WatchedCollection]
Payloads(points) == {q.payload : q \in points}

\* what the store should hold for a file: the chunks of its content and mtime
ChunksOf(path) == Payloads(FilePoints(hash_seed, path, files[path]))

\* nothing is queued or running
Quiescent ==
    /\ events = <<>>
    /\ handler.pc = "idle"
    /\ \A k \in TaskIds : tasks[k].pc = "free"

\* no file and no stored chunk has more chunks than one scroll returns
FewChunks ==
    /\ \A p \in FilePaths :
          NumChunks(files[p].content.words, ChunkSize, OverlapPercent) <= ScrollLimit
    /\ \A q \in Points : "total_chunks" \in DOMAIN q.payload
                            => q.payload.total_chunks <= ScrollLimit

\* C6: once the events are handled and every task has finished, the chunks
\* stored under each path are exactly the chunks of the file's latest content
\* and modification time, and none when the file is gone.  Stated under
\* EditSpec and for files of few chunks, so that neither on_moved nor the
\* scroll limit plays a part: what remains is the interleaving of tasks and
\* handlers.
C6_LastWriterWins ==
    (Quiescent /\ FewChunks)
        => \A p \in FilePaths : Payloads(PointsUnder(Points, p)) = ChunksOf(p)

\* task k returns from _process_file having got past the deletion
TaskFinishes(k) == tasks[k].pc \in {"read", "loop"} /\ tasks'[k].pc = "free"

\* C7: when a task that ran alone on its path finishes, and the store held,
\* when it began, exactly the chunks of the file as it still is (content and
\* modification time unchanged), the ids stored under the path are the ids
\* stored before.
C7_UnchangedKeepsIds ==
    [][\A k \in TaskIds :
          (/\ TaskFinishes(k)
           /\ tasks[k].clean
           /\ tasks[k].before # {}
           /\ Payloads(tasks[k].before) = ChunksOf(tasks[k].path))
             => Ids(PointsUnder(PointsAfter, tasks[k].path)) = Ids(tasks[k].before)]_vars

\* C8: when a task that ran alone on its path finishes, and the chunks stored
\* when it began all carried another modification time than the file has now,
\* none of the ids stored before is stored under the path any more.
C8_ModifiedReplacesIds ==
    [][\A k \in TaskIds :
          (/\ TaskFinishes(k)
           /\ tasks[k].clean
           /\ files[tasks[k].path].exists
           /\ \A q \in tasks[k].before : q.payload.mtime # files[tasks[k].path].mtime)
             => Ids(PointsUnder(PointsAfter, tasks[k].path)) \cap Ids(tasks[k].before) = {}]_vars

\* C9: when on_deleted returns for path p, no stored point has path = p, and
\* the points of other paths and the metadata point are what they were.
C9_DeletedRemovesAll ==
    [][(handler.type = "deleted" /\ handler.pc = "delete" /\ handler'.pc = "idle")
          => /\ PointsUnder(PointsAfter, handler.path) = {}
             /\ PointsAfter \ PointsUnder(PointsAfter, handler.path)
                   = Points \ PointsUnder(Points, handler.path)]_vars

\* C10: when the Observer thread takes a moved event (src, dest), a delayed
\* task for dest is started and the deletion of src's chunks begins.
C10_MovedReprocessesDest ==
    [][(/\ events # <<>>
        /\ Head(events).type = "moved"
        /\ events' = Tail(events)
        /\ handler.pc = "idle")
          => /\ \E k \in TaskIds : /\ tasks[k].pc = "free"
                                   /\ tasks'[k].pc = "sleep"
                                   /\ tasks'[k].path = Head(events).dest_path
             /\ handler'.pc = "scroll"
             /\ handler'.path = Head(events).src_path]_vars

----------------------------------------------------------------------------
(* Properties of the watcher's life (LifeSpec) *)

\* the moves of status the lifecycle allows
StatusMoves == {<<"idle", "scanning">>, <<"scanning", "watching">>, <<"idle", "watching">>}
                  \cup {<<st, "stopped">> : st \in {"idle", "scanning", "watching"}}

\* C11: the status only moves idle -> scanning -> watching, idle -> watching,
\* or from any state to stopped; once it is stopped no step changes it.
C11_StatusMoves ==
    [][progress'.status # progress.status
          => <<progress.status, progress'.status>> \in StatusMoves]_vars

\* C12: in every state processed_files <= total_files, and the progress
\* get_status reports lies between 0 and 100.
C12_ProcessedAtMostTotal ==
    /\ progress.processed_files <= progress.total_files
    /\ reader.snapshot.progress_percent \in 0..100

\* the registry's restore is between constructing the watcher and the return
\* of its start()
InRestore == starter.skip_initial_scan /\ starter.pc # "done"

\* C12, outside the restore: processed_files <= total_files in every state
\* in which the watcher is not being restored, with equality once a restored
\* watcher's start() has returned, and every get_status result reports a
\* progress between 0 and 100.
C12_OrderedOutsideRestore ==
    /\ ~InRestore => progress.processed_files <= progress.total_files
    /\ (starter.skip_initial_scan /\ starter.pc = "done")
          => progress.processed_files = progress.total_files
    /\ reader.snapshot.progress_percent \in 0..100

\* get_status has read a scan halfway through two files
C12_Witness ==
    /\ ~starter.skip_initial_scan
    /\ scanner.pc # "none"
    /\ reader.snapshot.processed_files = 1
    /\ reader.snapshot.total_files = 2
    /\ reader.snapshot.progress_percent = 50

\* the chunk records of the watcher's collection: every point but the metadata
ChunkRecords == {q \in Points : q.id # WATCHER_METADATA_ID}

\* the restored watcher is in the map and start() has returned
Restored == starter.skip_initial_scan /\ starter.pc = "done"

C24_MetadataKept ==
    WatchedCollection \in DOMAIN collections =>
        /\ RetrieveMeta(collections, WatchedCollection)
               = {MetaPoint(WatchedFolder, WatchedTypes, collection_prefix)}
        /\ \A q \in Points : "path" \in DOMAIN q.payload => q.id # WATCHER_METADATA_ID
        /\ \A path \in FilePaths :
              MetaPoint(WatchedFolder, WatchedTypes, collection_prefix)
                  \notin PointsUnder(Points, path)

\* on_deleted has selected chunk records by path and is about to delete them,
\* while a task reprocessing a file has upserted its first chunk
C24_Witness ==
    /\ handler.pc = "delete" /\ handler.ids # {}
    /\ \E k \in TaskIds : tasks[k].pc = "loop" /\ tasks[k].i >= 1
    /\ MetaPoint(WatchedFolder, WatchedTypes, collection_prefix) \in Points

-----------------------------------------------------------------------------
(* chunk_text's properties *)

\* ceil(n / d)
CeilDiv(n, d) == (n + d - 1) \div d

\* max(1, floor(chunk_size * (1 - overlap))) in exact arithmetic
ExactStep(chunk_size, overlap_percent) ==
    LET st == (chunk_size * (100 - overlap_percent)) \div 100
    IN  IF st < 1 THEN 1 ELSE st

\* words[from .. from + chunk_size - 1] (0-based, cut at the end), joined by spaces
Window(words, from, chunk_size) ==
    LET last == IF from + chunk_size < Len(words) THEN from + chunk_size ELSE Len(words)
    IN  Join(SubSeq(words, from + 1, last), " ")

\* C17: chunk_text returns exactly ceil(n / step) chunks for the n words of
\* the text, step = max(1, floor(chunk_size * (1 - overlap))); the k-th chunk
\* (from 0) is the words k*step .. k*step + chunk_size - 1 joined by single
\* spaces; a text without words gives the empty list.
C17_ChunkWindows ==
    chunker.pc = "returned" =>
        LET words == SplitWords(chunker.text)
            step == ExactStep(chunker.chunk_size, chunker.overlap_percent)
        IN  /\ Len(chunker.chunks) = CeilDiv(Len(words), step)
            /\ \A k \in 0..(Len(chunker.chunks) - 1) :
                  chunker.chunks[k + 1] = Window(words, k * step, chunker.chunk_size)
            /\ words = <<>> => chunker.chunks = <<>>

\* the first `step` words of every chunk but the last, then the whole last chunk
RECURSIVE Reassemble(_, _)
Reassemble(chunks, step) ==
    IF chunks = <<>> THEN <<>>
    ELSE IF Len(chunks) = 1 THEN SplitWords(Head(chunks))
    ELSE Prefix(SplitWords(Head(chunks)), step) \o Reassemble(Tail(chunks), step)

\* C18: for every text, chunk_size and overlap, the first step words of each
\* chunk except the last, followed by the whole last chunk, are the words of
\* the text in order, none lost and none twice, with
\* step = max(1, floor(chunk_size * (1 - overlap))).
C18_Reassembles ==
    chunker.pc = "returned" =>
        Reassemble(chunker.chunks, ExactStep(chunker.chunk_size, chunker.overlap_percent))
            = SplitWords(chunker.text)

-----------------------------------------------------------------------------
(* The indexing of one file, and the progress lock *)

\* config.py: CHUNK_SIZE_WORDS
CHUNK_SIZE_WORDS == 150

\* the initial scan has run _process_file on the path, and stop() was not called
Scanned(path) ==
    /\ ~starter.skip_initial_scan
    /\ ~stop_event
    /\ \E k \in 1..Len(scanner.file_list) :
          /\ scanner.file_list[k] = path
          /\ \/ k < scanner.idx
             \/ k = scanner.idx /\ scanner.pc \in {"lock_inc", "inc"}

\* chunk_index and total_chunks of the chunk records stored under a path
IndexRecords(path) ==
    {[chunk_index |-> q.payload.chunk_index, total_chunks |-> q.payload.total_chunks] :
        q \in PointsUnder(Points, path)}

\* C19: a 300-word text file indexed by the watcher has exactly 3 chunk
\* records, chunk_index 0, 1 and 2, each with total_chunks = 3: the windows of
\* the configured chunk_size = 150 and overlap = 0.15.
C19_ThreeChunks ==
    (Scanned(FileA) /\ files[FileA].content.words = 300) =>
        /\ NumChunks(300, CHUNK_SIZE_WORDS, OverlapPercent) = 3
        /\ Cardinality(PointsUnder(Points, FileA)) = 3
        /\ IndexRecords(FileA) = {[chunk_index |-> i, total_chunks |-> 3] : i \in 0..2}

\* the thread a step belongs to
Mover ==
    IF starter' # starter THEN "starter"
    ELSE IF stopper' # stopper THEN "stopper"
    ELSE IF scanner' # scanner THEN "scanner"
    ELSE "reader"

\* the step changes status, total_files or processed_files
WritesProgress ==
    \/ progress'.status # progress.status
    \/ progress'.total_files # progress.total_files
    \/ progress'.processed_files # progress.processed_files

\* C20: status, total_files and processed_files are written, in start(),
\* stop(), the initial scan and the registry's restore, only by a thread that
\* holds the watcher's progress lock.
C20_WritesHoldLock ==
    [][WritesProgress => progress_lock = Mover]_vars

-----------------------------------------------------------------------------
(* _sanitize_collection_name's properties *)

\* the characters stripped from the ends of a name
Separators == {"_", ".", "-"}

\* C25: for every input the function either returns a non-empty string of at
\* most max_length characters, all of [A-Za-z0-9_.-], that neither starts nor
\* ends with '_', '.' or '-', or it raises, and it raises only when the input
\* is empty or whitespace-only.
C25_SanitizeTotal ==
    sanitizer.pc = "returned" =>
        IF sanitizer.raised
        THEN Strip(sanitizer.base_name, Whitespace) = <<>>
        ELSE /\ sanitizer.value # <<>>
             /\ Len(sanitizer.value) <= sanitizer.max_length
             /\ \A i \in 1..Len(sanitizer.value) : sanitizer.value[i] \in NameChars
             /\ Head(sanitizer.value) \notin Separators
             /\ sanitizer.value[Len(sanitizer.value)] \notin Separators

-----------------------------------------------------------------------------
(* The initial scan with failing calls, and stop() *)

\* the files the walk of _initial_scan finds and _should_process accepts
Eligible == {f \in FilePaths : files[f].exists /\ ShouldProcess(f, WatchedTypes)}

\* the calls that raised while `path` was processed
RaisedOn(path) == {r \in journal.raised : r[1] = path}

\* every chunk of the file's text that is long enough is stored under its path
AllChunksStored(path) == ChunksOf(path) \subseteq Payloads(PointsUnder(Points, path))

\* the scan thread has run to its end and stop() was never called
ScanCompleted == scanner.pc = "done" /\ ~stop_event

\* C21: with no stop requested, the initial scan of a watcher started by
\* watch_folder ends, whatever calls raise, with status watching and
\* processed_files = total_files = the number of eligible files; _process_file
\* has been called on every one of them, and every file on which nothing
\* raised has its chunks stored.
C21_ScanCompletes ==
    /\ [](ScanCompleted =>
             /\ progress.status = "watching"
             /\ progress.total_files = Cardinality(Eligible)
             /\ progress.processed_files = Cardinality(Eligible)
             /\ journal.scanned = Eligible
             /\ \A path \in Eligible : RaisedOn(path) = {} => AllChunksStored(path))
    /\ (scanner.pc = "walk") ~> (scanner.pc = "done" \/ stop_event)

\* the scan has completed over two files: on the first a call of the chunk
\* loop or the extraction raised, the second has all its chunks stored
C21_Witness ==
    /\ ScanCompleted
    /\ Len(scanner.file_list) = 2
    /\ \E r \in RaisedOn(scanner.file_list[1]) : r[2] \in {"extract", "embed", "upsert"}
    /\ RaisedOn(scanner.file_list[2]) = {}
    /\ AllChunksStored(scanner.file_list[2])
    /\ progress.status = "watching"
    /\ progress.processed_files = 2

\* the worker is past the checks of lines 127-131, inside _process_file
Inside(rec) == rec.pc \in {"scroll", "delete", "read", "check", "chunk"}

\* C22: once stop() has set the event, no worker (the scan thread, a task of an
\* event) gets past the entry of _process_file for another file; a worker
\* already inside makes at most one more upsert; and the steps of stop() leave
\* the stored points as they are.
C22_CooperativeStop ==
    /\ [](\A w \in Workers : journal.late_upserts[w] <= 1)
    /\ [][/\ stop_event => \A w \in Workers : Inside(proc'[w]) => Inside(proc[w])
          /\ stopper' # stopper => collections' = collections]_vars

\* stop() came while the scan was between the stop check of a pass and its
\* upsert: the scan made that upsert, left the loop and ended, chunks unwritten
C22_Witness ==
    /\ stop_event
    /\ journal.late_upserts["scan"] = 1
    /\ proc["scan"].pc = "idle"
    /\ scanner.pc = "done"
    /\ \E path \in journal.scanned : ~AllChunksStored(path)

\* chunk i of the file's text is stored under its path
ChunkStored(path, i) ==
    \E q \in PointsUnder(Points, path) : q.payload.chunk_index = i

\* C23: a raising upsert is a no-op for that chunk only: when the scan has
\* ended without a stop and no task is running, a file on which only upserts
\* raised has every other chunk stored, and _process_file was called on
\* every file of the batch.
C23_UpsertFailureSkipsOneChunk ==
    (ScanCompleted /\ proc["task"].pc = "idle") =>
        /\ journal.scanned = Eligible
        /\ \A path \in Eligible :
              (\A r \in RaisedOn(path) : r[2] = "upsert") =>
                  \A i \in 0..(NumChunks(files[path].content.words,
                                          ChunkSize, OverlapPercent) - 1) :
                      (Stored(files[path].content, i)
                          /\ <<path, "upsert", i>> \notin journal.raised)
                              => ChunkStored(path, i)

============================================================================
